---- MODULE Spec2Model ----
(***************************************************************************)
(* Model of the assets-factory precompile                                  *)
(* (precompiles/assets-factory/src/lib.rs): eight externally callable      *)
(* functions that decode their arguments, charge a fixed log cost, convert *)
(* the arguments to the runtime's types and forward a pallet_assets call   *)
(* to the runtime through RuntimeHelper::try_dispatch.                     *)
(*                                                                         *)
(* One action per exposed function; each action runs the whole handler.    *)
(* Spec calls the handlers with decoded arguments; SpecWire enters through *)
(* the generated entry point, which selects the function and decodes its   *)
(* arguments first.                                                        *)
(* The handle records, in order, every cost the handler records on it and  *)
(* every call it hands to try_dispatch, so that the order of the handler's *)
(* steps is visible in the state it leaves behind.                         *)
(***************************************************************************)
EXTENDS Integers, Sequences, FiniteSets, TLC

(***************************************************************************)
(* Bounds.  Integer widths are scaled down: the external id is a u64 and   *)
(* the external balance a u128 in the source; here the internal types are  *)
(* AssetIdBits and BalanceBits wide and the external ones one bit wider,   *)
(* so that both "fits" and "does not fit" happen.  MaxCalls bounds the      *)
(* number of invocations in a run; DispatchGas is the gas of a forwarded   *)
(* call's weight and G_LOG, G_LOGDATA, G_LOGTOPIC the log gas schedule,    *)
(* both fixed by the runtime the precompile is built into.                 *)
(***************************************************************************)
AssetIdBits == 2
BalanceBits == 2
MaxCalls == 3
DispatchGas == 5
G_LOG == 3
G_LOGDATA == 1
G_LOGTOPIC == 2

AssetIdMax == 2 ^ AssetIdBits - 1
U64Max == 2 ^ (AssetIdBits + 1) - 1
BalanceMax == 2 ^ BalanceBits - 1
U128Max == 2 ^ (BalanceBits + 1) - 1

(***************************************************************************)
(* Input domains.                                                          *)
(***************************************************************************)
Addresses == {"0xAA", "0xBB"}
U64Inputs == {0, 1, AssetIdMax, AssetIdMax + 1, U64Max}
U128Inputs == {1, BalanceMax, BalanceMax + 1, U128Max}
BytesInputs == {<<"a">>, <<"b", "c">>}
U8Inputs == {0, 18}

(***************************************************************************)
(* Collaborators of the precompile.                                        *)
(***************************************************************************)
\* Runtime::AddressMapping::into_account_id: total and deterministic.
into_account_id(address) == <<"AccountId", address>>

\* Runtime::Lookup::unlookup: the account as a lookup source.
unlookup(account) == <<"Id", account>>

\* Runtime::Lookup::lookup, as the ledger applies it to a lookup source.
lookup(source) == source[2]

\* TryFrom<u64> for the internal asset id.
try_into_asset_id(id) ==
    IF id <= AssetIdMax THEN [ok |-> TRUE, v |-> id] ELSE [ok |-> FALSE, v |-> 0]

\* AssetIdExt::is_allow_to_create: the native token's id is reserved.
ReservedAssetIds == {0}
is_allow_to_create(asset_id) == asset_id \notin ReservedAssetIds

\* EVMAddressToAssetId::asset_id_to_address: an address derived from the id alone.
asset_id_to_address(asset_id) == <<"0xFFFFFFFF", asset_id>>

\* precompile_utils::evm::costs::log_costs.  The gas schedule (G_LOG, G_LOGDATA,
\* G_LOGTOPIC) is the host EVM's and is set outside this crate: scaled here.
log_costs(topics, data_size) == G_LOG + G_LOGDATA * data_size + G_LOGTOPIC * topics

\* precompile_utils::prelude::SYSTEM_ACCOUNT_SIZE: the storage growth every handler
\* declares to try_dispatch; its value is set outside this crate.
SYSTEM_ACCOUNT_SIZE == "SYSTEM_ACCOUNT_SIZE"

(***************************************************************************)
(* Results (EvmResult).                                                    *)
(***************************************************************************)
Ok(value) == [tag |-> "Ok", value |-> value]
Unit == <<>>
OutOfGas == [tag |-> "Err", reason |-> "OutOfGas"]
value_is_too_large(what, field) ==
    [tag |-> "Err", reason |-> "ValueIsTooLarge", what |-> what, field |-> field]
Custom(msg) == [tag |-> "Err", reason |-> "Custom", msg |-> msg]
DispatchError(e) == [tag |-> "Err", reason |-> "Dispatch", error |-> e]

\* What a handler leaves behind: its result, the handle and the ledger.
Out(result, handle, ledger) == [result |-> result, handle |-> handle, ledger |-> ledger]

(***************************************************************************)
(* The handle (PrecompileHandle).                                          *)
(***************************************************************************)
NewHandle(caller, gas) == [caller |-> caller, gas |-> gas, trace |-> <<>>]

\* PrecompileHandleExt::record_log_costs_manual: record_cost(log_costs(..)).
record_log_costs_manual(handle, topics, data_size) ==
    LET cost == log_costs(topics, data_size) IN
    IF handle.gas < cost
    THEN [ok |-> FALSE, handle |-> handle]
    ELSE [ok |-> TRUE,
          handle |-> [handle EXCEPT
              !.gas = @ - cost,
              !.trace = Append(@, [ev |-> "record_log_costs", topics |-> topics,
                                   data_size |-> data_size, cost |-> cost])]]

(***************************************************************************)
(* The ledger (pallet_assets), as far as the forwarded calls touch it.     *)
(***************************************************************************)
NoAsset == [status |-> "None"]
EmptyLedger == [i \in 0 .. AssetIdMax |-> NoAsset]

Apply(ledger, origin, call) ==
    LET a == ledger[call.id] IN
    CASE call.call = "create" ->
            IF a # NoAsset THEN [ok |-> FALSE, error |-> "InUse", ledger |-> ledger]
            ELSE IF call.min_balance = 0
            THEN [ok |-> FALSE, error |-> "MinBalanceZero", ledger |-> ledger]
            ELSE [ok |-> TRUE, error |-> "",
                  ledger |-> [ledger EXCEPT ![call.id] =
                      [status |-> "Live", owner |-> lookup(call.admin),
                       team |-> <<lookup(call.admin), lookup(call.admin), lookup(call.admin)>>,
                       min_balance |-> call.min_balance, metadata |-> <<>>]]]
      [] call.call = "finish_destroy" ->
            IF a = NoAsset THEN [ok |-> FALSE, error |-> "Unknown", ledger |-> ledger]
            ELSE IF a.status # "Destroying"
            THEN [ok |-> FALSE, error |-> "IncorrectStatus", ledger |-> ledger]
            ELSE [ok |-> TRUE, error |-> "", ledger |-> [ledger EXCEPT ![call.id] = NoAsset]]
      [] OTHER ->
            IF a = NoAsset THEN [ok |-> FALSE, error |-> "Unknown", ledger |-> ledger]
            ELSE IF origin # a.owner
            THEN [ok |-> FALSE, error |-> "NoPermission", ledger |-> ledger]
            ELSE IF a.status # "Live"
            THEN [ok |-> FALSE, error |-> "AssetNotLive", ledger |-> ledger]
            ELSE [ok |-> TRUE, error |-> "",
                  ledger |-> [ledger EXCEPT ![call.id] =
                      CASE call.call = "set_metadata" ->
                              [a EXCEPT !.metadata = <<call.name, call.symbol, call.decimals>>]
                        [] call.call = "set_min_balance" ->
                              [a EXCEPT !.min_balance = call.min_balance]
                        [] call.call = "set_team" ->
                              [a EXCEPT !.team = <<lookup(call.issuer), lookup(call.admin),
                                                   lookup(call.freezer)>>]
                        [] call.call = "transfer_ownership" ->
                              [a EXCEPT !.owner = lookup(call.owner)]
                        [] call.call = "start_destroy" ->
                              [a EXCEPT !.status = "Destroying"]]]

\* GasWeightMapping::weight_to_gas of the call's dispatch weight.
weight_to_gas(call) == DispatchGas

(***************************************************************************)
(* RuntimeHelper::try_dispatch: out of gas before the ledger is touched    *)
(* when the call's weight does not fit the remaining gas; otherwise the    *)
(* call is dispatched with the origin, all or nothing.                     *)
(***************************************************************************)
try_dispatch(handle, ledger, origin, call, storage_growth) ==
    LET required_gas == weight_to_gas(call)
        entry == [ev |-> "try_dispatch", origin |-> origin, call |-> call,
                  storage_growth |-> storage_growth]
    IN
    IF required_gas > handle.gas
    THEN Out(OutOfGas,
             [handle EXCEPT !.trace = Append(@, entry @@ [engine |-> "OutOfGas"])],
             ledger)
    ELSE LET r == Apply(ledger, origin, call) IN
         IF r.ok
         THEN Out(Ok(Unit),
                  [handle EXCEPT !.gas = @ - required_gas,
                                 !.trace = Append(@, entry @@ [engine |-> "Ok"])],
                  r.ledger)
         ELSE Out(DispatchError(r.error),
                  [handle EXCEPT !.trace = Append(@, entry @@ [engine |-> r.error])],
                  ledger)

(***************************************************************************)
(* The handlers.                                                           *)
(***************************************************************************)
\* Variant: the balance is narrowed by dropping its high bits.
min_balance_truncating(min_balance) == min_balance % (BalanceMax + 1)

\* min_balance.try_into().unwrap_or_else(|_| Bounded::max_value())
min_balance_or_max(min_balance) ==
    IF min_balance <= BalanceMax THEN min_balance ELSE BalanceMax

\* Variant: the id is narrowed by dropping its high bits.
convert_asset_id_to_address_truncating(handle, ledger, id) ==
    Out(Ok(asset_id_to_address(id % (AssetIdMax + 1))), handle, ledger)

\* Variant: the view function charges the log cost like its mutating siblings.
convert_asset_id_to_address_charging(handle, ledger, id) ==
    LET c == record_log_costs_manual(handle, 3, 32) IN
    IF ~c.ok THEN Out(OutOfGas, c.handle, ledger)
    ELSE
    LET asset_id == try_into_asset_id(id) IN
    IF ~asset_id.ok THEN Out(value_is_too_large("asset id", "id"), c.handle, ledger)
    ELSE Out(Ok(asset_id_to_address(asset_id.v)), c.handle, ledger)

convert_asset_id_to_address(handle, ledger, id) ==
    LET asset_id == try_into_asset_id(id) IN
    IF ~asset_id.ok THEN Out(value_is_too_large("asset id", "id"), handle, ledger)
    ELSE Out(Ok(asset_id_to_address(asset_id.v)), handle, ledger)

\* Variant: the origin is taken from the admin argument.
create_origin_from_admin(handle, ledger, id, admin, min_balance) ==
    LET c == record_log_costs_manual(handle, 3, 32) IN
    IF ~c.ok THEN Out(OutOfGas, c.handle, ledger)
    ELSE
    LET asset_id == try_into_asset_id(id) IN
    IF ~asset_id.ok THEN Out(value_is_too_large("asset id", "id"), c.handle, ledger)
    ELSE IF ~is_allow_to_create(asset_id.v)
    THEN Out(Custom("Invalid asset id"), c.handle, ledger)
    ELSE
    LET mb == min_balance_or_max(min_balance)
        adminAcc == into_account_id(admin)
        origin == adminAcc
    IN try_dispatch(c.handle, ledger, origin,
                    [call |-> "create", id |-> asset_id.v,
                     admin |-> unlookup(adminAcc), min_balance |-> mb],
                    SYSTEM_ACCOUNT_SIZE)

\* Variant: the admissibility check is missing.
create_without_admissibility(handle, ledger, id, admin, min_balance) ==
    LET c == record_log_costs_manual(handle, 3, 32) IN
    IF ~c.ok THEN Out(OutOfGas, c.handle, ledger)
    ELSE
    LET asset_id == try_into_asset_id(id) IN
    IF ~asset_id.ok THEN Out(value_is_too_large("asset id", "id"), c.handle, ledger)
    ELSE
    LET mb == min_balance_or_max(min_balance)
        origin == into_account_id(c.handle.caller)
        adminAcc == into_account_id(admin)
    IN try_dispatch(c.handle, ledger, origin,
                    [call |-> "create", id |-> asset_id.v,
                     admin |-> unlookup(adminAcc), min_balance |-> mb],
                    SYSTEM_ACCOUNT_SIZE)

\* Variant: the id is converted and checked before the log cost is charged.
create_check_before_charge(handle, ledger, id, admin, min_balance) ==
    LET asset_id == try_into_asset_id(id) IN
    IF ~asset_id.ok THEN Out(value_is_too_large("asset id", "id"), handle, ledger)
    ELSE IF ~is_allow_to_create(asset_id.v)
    THEN Out(Custom("Invalid asset id"), handle, ledger)
    ELSE
    LET c == record_log_costs_manual(handle, 3, 32) IN
    IF ~c.ok THEN Out(OutOfGas, c.handle, ledger)
    ELSE
    LET mb == min_balance_or_max(min_balance)
        origin == into_account_id(c.handle.caller)
        adminAcc == into_account_id(admin)
    IN try_dispatch(c.handle, ledger, origin,
                    [call |-> "create", id |-> asset_id.v,
                     admin |-> unlookup(adminAcc), min_balance |-> mb],
                    SYSTEM_ACCOUNT_SIZE)

create(handle, ledger, id, admin, min_balance) ==
    LET c == record_log_costs_manual(handle, 3, 32) IN
    IF ~c.ok THEN Out(OutOfGas, c.handle, ledger)
    ELSE
    LET asset_id == try_into_asset_id(id) IN
    IF ~asset_id.ok THEN Out(value_is_too_large("asset id", "id"), c.handle, ledger)
    ELSE IF ~is_allow_to_create(asset_id.v)
    THEN Out(Custom("Invalid asset id"), c.handle, ledger)
    ELSE
    LET mb == min_balance_or_max(min_balance)
        origin == into_account_id(c.handle.caller)
        adminAcc == into_account_id(admin)
    IN try_dispatch(c.handle, ledger, origin,
                    [call |-> "create", id |-> asset_id.v,
                     admin |-> unlookup(adminAcc), min_balance |-> mb],
                    SYSTEM_ACCOUNT_SIZE)

set_metadata(handle, ledger, id, name, symbol, decimals) ==
    LET c == record_log_costs_manual(handle, 3, 32) IN
    IF ~c.ok THEN Out(OutOfGas, c.handle, ledger)
    ELSE
    LET asset_id == try_into_asset_id(id) IN
    IF ~asset_id.ok THEN Out(value_is_too_large("asset id", "id"), c.handle, ledger)
    ELSE
    LET origin == into_account_id(c.handle.caller)
    IN try_dispatch(c.handle, ledger, origin,
                    [call |-> "set_metadata", id |-> asset_id.v,
                     name |-> name, symbol |-> symbol, decimals |-> decimals],
                    SYSTEM_ACCOUNT_SIZE)

\* Variant: the outcome of the log-cost charge is not looked at.
set_min_balance_unchecked_charge(handle, ledger, id, min_balance) ==
    LET c == record_log_costs_manual(handle, 3, 32) IN
    LET asset_id == try_into_asset_id(id) IN
    IF ~asset_id.ok THEN Out(value_is_too_large("asset id", "id"), c.handle, ledger)
    ELSE
    LET mb == min_balance_or_max(min_balance)
        origin == into_account_id(c.handle.caller)
    IN try_dispatch(c.handle, ledger, origin,
                    [call |-> "set_min_balance", id |-> asset_id.v, min_balance |-> mb],
                    SYSTEM_ACCOUNT_SIZE)

set_min_balance(handle, ledger, id, min_balance) ==
    LET c == record_log_costs_manual(handle, 3, 32) IN
    IF ~c.ok THEN Out(OutOfGas, c.handle, ledger)
    ELSE
    LET asset_id == try_into_asset_id(id) IN
    IF ~asset_id.ok THEN Out(value_is_too_large("asset id", "id"), c.handle, ledger)
    ELSE
    LET mb == min_balance_or_max(min_balance)
        origin == into_account_id(c.handle.caller)
    IN try_dispatch(c.handle, ledger, origin,
                    [call |-> "set_min_balance", id |-> asset_id.v, min_balance |-> mb],
                    SYSTEM_ACCOUNT_SIZE)

\* Variant: issuer and admin change places in the forwarded call.
set_team_permuted(handle, ledger, id, issuer, admin, freezer) ==
    LET c == record_log_costs_manual(handle, 3, 32) IN
    IF ~c.ok THEN Out(OutOfGas, c.handle, ledger)
    ELSE
    LET asset_id == try_into_asset_id(id) IN
    IF ~asset_id.ok THEN Out(value_is_too_large("asset id", "id"), c.handle, ledger)
    ELSE
    LET origin == into_account_id(c.handle.caller)
        issuerAcc == into_account_id(issuer)
        adminAcc == into_account_id(admin)
        freezerAcc == into_account_id(freezer)
    IN try_dispatch(c.handle, ledger, origin,
                    [call |-> "set_team", id |-> asset_id.v,
                     issuer |-> unlookup(adminAcc), admin |-> unlookup(issuerAcc),
                     freezer |-> unlookup(freezerAcc)],
                    SYSTEM_ACCOUNT_SIZE)

set_team(handle, ledger, id, issuer, admin, freezer) ==
    LET c == record_log_costs_manual(handle, 3, 32) IN
    IF ~c.ok THEN Out(OutOfGas, c.handle, ledger)
    ELSE
    LET asset_id == try_into_asset_id(id) IN
    IF ~asset_id.ok THEN Out(value_is_too_large("asset id", "id"), c.handle, ledger)
    ELSE
    LET origin == into_account_id(c.handle.caller)
        issuerAcc == into_account_id(issuer)
        adminAcc == into_account_id(admin)
        freezerAcc == into_account_id(freezer)
    IN try_dispatch(c.handle, ledger, origin,
                    [call |-> "set_team", id |-> asset_id.v,
                     issuer |-> unlookup(issuerAcc), admin |-> unlookup(adminAcc),
                     freezer |-> unlookup(freezerAcc)],
                    SYSTEM_ACCOUNT_SIZE)

\* Variant: the id is converted before the log cost is charged.
transfer_ownership_convert_before_charge(handle, ledger, id, owner) ==
    LET asset_id == try_into_asset_id(id) IN
    IF ~asset_id.ok THEN Out(value_is_too_large("asset id", "id"), handle, ledger)
    ELSE
    LET c == record_log_costs_manual(handle, 3, 32) IN
    IF ~c.ok THEN Out(OutOfGas, c.handle, ledger)
    ELSE
    LET origin == into_account_id(c.handle.caller)
        ownerAcc == into_account_id(owner)
    IN try_dispatch(c.handle, ledger, origin,
                    [call |-> "transfer_ownership", id |-> asset_id.v,
                     owner |-> unlookup(ownerAcc)],
                    SYSTEM_ACCOUNT_SIZE)

\* Variant: the outcome of try_dispatch is dropped.
transfer_ownership_ignore_dispatch_error(handle, ledger, id, owner) ==
    LET c == record_log_costs_manual(handle, 3, 32) IN
    IF ~c.ok THEN Out(OutOfGas, c.handle, ledger)
    ELSE
    LET asset_id == try_into_asset_id(id) IN
    IF ~asset_id.ok THEN Out(value_is_too_large("asset id", "id"), c.handle, ledger)
    ELSE
    LET origin == into_account_id(c.handle.caller)
        ownerAcc == into_account_id(owner)
        d == try_dispatch(c.handle, ledger, origin,
                          [call |-> "transfer_ownership", id |-> asset_id.v,
                           owner |-> unlookup(ownerAcc)],
                          SYSTEM_ACCOUNT_SIZE)
    IN Out(Ok(Unit), d.handle, d.ledger)

transfer_ownership(handle, ledger, id, owner) ==
    LET c == record_log_costs_manual(handle, 3, 32) IN
    IF ~c.ok THEN Out(OutOfGas, c.handle, ledger)
    ELSE
    LET asset_id == try_into_asset_id(id) IN
    IF ~asset_id.ok THEN Out(value_is_too_large("asset id", "id"), c.handle, ledger)
    ELSE
    LET origin == into_account_id(c.handle.caller)
        ownerAcc == into_account_id(owner)
    IN try_dispatch(c.handle, ledger, origin,
                    [call |-> "transfer_ownership", id |-> asset_id.v,
                     owner |-> unlookup(ownerAcc)],
                    SYSTEM_ACCOUNT_SIZE)

\* Variant: the admissibility check of create is applied here too.
start_destroy_with_admissibility(handle, ledger, id) ==
    LET c == record_log_costs_manual(handle, 3, 32) IN
    IF ~c.ok THEN Out(OutOfGas, c.handle, ledger)
    ELSE
    LET asset_id == try_into_asset_id(id) IN
    IF ~asset_id.ok THEN Out(value_is_too_large("asset id", "id"), c.handle, ledger)
    ELSE IF ~is_allow_to_create(asset_id.v)
    THEN Out(Custom("Invalid asset id"), c.handle, ledger)
    ELSE
    LET origin == into_account_id(c.handle.caller)
    IN try_dispatch(c.handle, ledger, origin,
                    [call |-> "start_destroy", id |-> asset_id.v],
                    SYSTEM_ACCOUNT_SIZE)

\* Variant: the log cost is not charged.
start_destroy_no_charge(handle, ledger, id) ==
    LET asset_id == try_into_asset_id(id) IN
    IF ~asset_id.ok THEN Out(value_is_too_large("asset id", "id"), handle, ledger)
    ELSE
    LET origin == into_account_id(handle.caller)
    IN try_dispatch(handle, ledger, origin,
                    [call |-> "start_destroy", id |-> asset_id.v],
                    SYSTEM_ACCOUNT_SIZE)

start_destroy(handle, ledger, id) ==
    LET c == record_log_costs_manual(handle, 3, 32) IN
    IF ~c.ok THEN Out(OutOfGas, c.handle, ledger)
    ELSE
    LET asset_id == try_into_asset_id(id) IN
    IF ~asset_id.ok THEN Out(value_is_too_large("asset id", "id"), c.handle, ledger)
    ELSE
    LET origin == into_account_id(c.handle.caller)
    IN try_dispatch(c.handle, ledger, origin,
                    [call |-> "start_destroy", id |-> asset_id.v],
                    SYSTEM_ACCOUNT_SIZE)

finish_destroy(handle, ledger, id) ==
    LET c == record_log_costs_manual(handle, 3, 32) IN
    IF ~c.ok THEN Out(OutOfGas, c.handle, ledger)
    ELSE
    LET asset_id == try_into_asset_id(id) IN
    IF ~asset_id.ok THEN Out(value_is_too_large("asset id", "id"), c.handle, ledger)
    ELSE
    LET origin == into_account_id(c.handle.caller)
    IN try_dispatch(c.handle, ledger, origin,
                    [call |-> "finish_destroy", id |-> asset_id.v],
                    SYSTEM_ACCOUNT_SIZE)

(***************************************************************************)
(* The same precompile seen from the wire: the entry point generated by    *)
(* #[precompile_utils::precompile] reads the selector of the call data,    *)
(* picks the public function whose signature hashes to it, decodes that    *)
(* function's arguments and only then calls the handler.                   *)
(***************************************************************************)
\* type GetBytesLimit = ConstU32<{ 2u32.pow(16) }>
GetBytesLimit == 2 ^ 16

\* A byte string of the call data, kept as its length and the byte that fills it.
Bytes(len, fill) == [len |-> len, fill |-> fill]
WireBytesInputs == {Bytes(1, "a"), Bytes(GetBytesLimit, "b"), Bytes(GetBytesLimit + 1, "c")}

\* Codec::read of BoundedBytes<S>: the declared length is checked against S.
read_bounded_bytes(bytes, limit) ==
    IF bytes.len > limit THEN [ok |-> FALSE, v |-> Bytes(0, "")] ELSE [ok |-> TRUE, v |-> bytes]

\* The first four bytes of the hash of a signature: distinct signatures, distinct selectors.
Selector(signature) == <<"keccak256[0..4]", signature>>

\* Variant: a ninth function is exposed.
PublicFunctionsWithNinth ==
    { [signature |-> "convertAssetIdToAddress(uint64)", op |-> "convertAssetIdToAddress"],
      [signature |-> "create(uint64,address,uint128)", op |-> "create"],
      [signature |-> "setMetadata(uint64,bytes,bytes,uint8)", op |-> "setMetadata"],
      [signature |-> "setMinBalance(uint64,uint128)", op |-> "setMinBalance"],
      [signature |-> "setTeam(uint64,address,address,address)", op |-> "setTeam"],
      [signature |-> "transferOwnership(uint64,address)", op |-> "transferOwnership"],
      [signature |-> "startDestroy(uint64)", op |-> "startDestroy"],
      [signature |-> "finishDestroy(uint64)", op |-> "finishDestroy"],
      [signature |-> "forceCreate(uint64,address,uint128)", op |-> "forceCreate"] }

\* The #[precompile::public(..)] functions of the impl block.
PublicFunctions ==
    { [signature |-> "convertAssetIdToAddress(uint64)", op |-> "convertAssetIdToAddress"],
      [signature |-> "create(uint64,address,uint128)", op |-> "create"],
      [signature |-> "setMetadata(uint64,bytes,bytes,uint8)", op |-> "setMetadata"],
      [signature |-> "setMinBalance(uint64,uint128)", op |-> "setMinBalance"],
      [signature |-> "setTeam(uint64,address,address,address)", op |-> "setTeam"],
      [signature |-> "transferOwnership(uint64,address)", op |-> "transferOwnership"],
      [signature |-> "startDestroy(uint64)", op |-> "startDestroy"],
      [signature |-> "finishDestroy(uint64)", op |-> "finishDestroy"] }

\* The function a selector picks, "unknown" when no signature hashes to it.
discriminant(selector) ==
    LET hit == {f \in PublicFunctions : Selector(f.signature) = selector} IN
    IF hit = {} THEN "unknown" ELSE (CHOOSE f \in hit : TRUE).op

UnknownSelector == [tag |-> "Err", reason |-> "UnknownSelector"]

\* Variant: the byte strings of setMetadata are decoded without a bound.
setMetadataUnbounded(handle, ledger, args) ==
    set_metadata(handle, ledger, args.id, args.name, args.symbol, args.decimals)

\* setMetadata(uint64,bytes,bytes,uint8): name and symbol are BoundedBytes<GetBytesLimit>.
setMetadata(handle, ledger, args) ==
    LET name == read_bounded_bytes(args.name, GetBytesLimit)
        symbol == read_bounded_bytes(args.symbol, GetBytesLimit)
    IN
    IF ~name.ok THEN Out(value_is_too_large("length", "name"), handle, ledger)
    ELSE IF ~symbol.ok THEN Out(value_is_too_large("length", "symbol"), handle, ledger)
    ELSE set_metadata(handle, ledger, args.id, name.v, symbol.v, args.decimals)

\* Variant: startDestroy and finishDestroy are routed to each other's handler.
execute_misrouted(handle, ledger, selector, args) ==
    LET f == discriminant(selector) IN
    CASE f = "convertAssetIdToAddress" -> convert_asset_id_to_address(handle, ledger, args.id)
      [] f = "create" -> create(handle, ledger, args.id, args.admin, args.min_balance)
      [] f = "setMetadata" -> setMetadata(handle, ledger, args)
      [] f = "setMinBalance" -> set_min_balance(handle, ledger, args.id, args.min_balance)
      [] f = "setTeam" ->
            set_team(handle, ledger, args.id, args.issuer, args.admin, args.freezer)
      [] f = "transferOwnership" -> transfer_ownership(handle, ledger, args.id, args.owner)
      [] f = "startDestroy" -> finish_destroy(handle, ledger, args.id)
      [] f = "finishDestroy" -> start_destroy(handle, ledger, args.id)
      [] OTHER -> Out(UnknownSelector, handle, ledger)

\* The generated entry point: select, decode, call.
execute(handle, ledger, selector, args) ==
    LET f == discriminant(selector) IN
    CASE f = "convertAssetIdToAddress" -> convert_asset_id_to_address(handle, ledger, args.id)
      [] f = "create" -> create(handle, ledger, args.id, args.admin, args.min_balance)
      [] f = "setMetadata" -> setMetadata(handle, ledger, args)
      [] f = "setMinBalance" -> set_min_balance(handle, ledger, args.id, args.min_balance)
      [] f = "setTeam" ->
            set_team(handle, ledger, args.id, args.issuer, args.admin, args.freezer)
      [] f = "transferOwnership" -> transfer_ownership(handle, ledger, args.id, args.owner)
      [] f = "startDestroy" -> start_destroy(handle, ledger, args.id)
      [] f = "finishDestroy" -> finish_destroy(handle, ledger, args.id)
      [] OTHER -> Out(UnknownSelector, handle, ledger)

(***************************************************************************)
(* State: the ledger, and the invocation in progress.  An invocation runs  *)
(* to completion in one step; when it has returned, the request, its       *)
(* handle and its result are dropped (the precompile keeps nothing between *)
(* invocations).                                                           *)
(***************************************************************************)
VARIABLES
    ledger,     \* the asset ledger
    before,     \* the ledger as it was when the invocation started
    ncalls,     \* invocations so far
    op,         \* the function invoked, "none" between invocations
    input,      \* its caller, gas limit and decoded arguments
    handle,     \* the handle as the handler left it
    result      \* what the handler returned

vars == <<ledger, before, ncalls, op, input, handle, result>>

NoInput == <<>>
NoHandle == NewHandle("", 0)

Init ==
    /\ ledger = EmptyLedger
    /\ before = EmptyLedger
    /\ ncalls = 0
    /\ op = "none"
    /\ input = NoInput
    /\ handle = NoHandle
    /\ result = Ok(Unit)

GasInputs == {log_costs(3, 32) - 1, log_costs(3, 32) + DispatchGas - 1,
              log_costs(3, 32) + DispatchGas}

\* The host invokes function `name` with the decoded `in`; `out` is what the handler leaves.
Idle == op = "none" /\ ncalls < MaxCalls

Invoke(name, in, out) ==
    /\ ncalls' = ncalls + 1
    /\ op' = name
    /\ input' = in
    /\ handle' = out.handle
    /\ result' = out.result
    /\ before' = ledger
    /\ ledger' = out.ledger

Call_convert_asset_id_to_address ==
    /\ Idle
    /\ \E caller \in Addresses, gas \in GasInputs, id \in U64Inputs :
        Invoke("convertAssetIdToAddress",
               [caller |-> caller, gas |-> gas, id |-> id],
               convert_asset_id_to_address(NewHandle(caller, gas), ledger, id))

Call_create ==
    /\ Idle
    /\ \E caller \in Addresses, gas \in GasInputs, id \in U64Inputs,
       admin \in Addresses, min_balance \in U128Inputs :
        Invoke("create",
               [caller |-> caller, gas |-> gas, id |-> id, admin |-> admin,
                min_balance |-> min_balance],
               create(NewHandle(caller, gas), ledger, id, admin, min_balance))

Call_set_metadata ==
    /\ Idle
    /\ \E caller \in Addresses, gas \in GasInputs, id \in U64Inputs,
       name \in BytesInputs, symbol \in BytesInputs, decimals \in U8Inputs :
        Invoke("setMetadata",
               [caller |-> caller, gas |-> gas, id |-> id, name |-> name,
                symbol |-> symbol, decimals |-> decimals],
               set_metadata(NewHandle(caller, gas), ledger, id, name, symbol, decimals))

Call_set_min_balance ==
    /\ Idle
    /\ \E caller \in Addresses, gas \in GasInputs, id \in U64Inputs,
       min_balance \in U128Inputs :
        Invoke("setMinBalance",
               [caller |-> caller, gas |-> gas, id |-> id, min_balance |-> min_balance],
               set_min_balance(NewHandle(caller, gas), ledger, id, min_balance))

Call_set_team ==
    /\ Idle
    /\ \E caller \in Addresses, gas \in GasInputs, id \in U64Inputs,
       issuer \in Addresses, admin \in Addresses, freezer \in Addresses :
        Invoke("setTeam",
               [caller |-> caller, gas |-> gas, id |-> id, issuer |-> issuer,
                admin |-> admin, freezer |-> freezer],
               set_team(NewHandle(caller, gas), ledger, id, issuer, admin, freezer))

Call_transfer_ownership ==
    /\ Idle
    /\ \E caller \in Addresses, gas \in GasInputs, id \in U64Inputs, owner \in Addresses :
        Invoke("transferOwnership",
               [caller |-> caller, gas |-> gas, id |-> id, owner |-> owner],
               transfer_ownership(NewHandle(caller, gas), ledger, id, owner))

Call_start_destroy ==
    /\ Idle
    /\ \E caller \in Addresses, gas \in GasInputs, id \in U64Inputs :
        Invoke("startDestroy",
               [caller |-> caller, gas |-> gas, id |-> id],
               start_destroy(NewHandle(caller, gas), ledger, id))

Call_finish_destroy ==
    /\ Idle
    /\ \E caller \in Addresses, gas \in GasInputs, id \in U64Inputs :
        Invoke("finishDestroy",
               [caller |-> caller, gas |-> gas, id |-> id],
               finish_destroy(NewHandle(caller, gas), ledger, id))

\* The invocation has returned to the host: nothing of it is retained.
Return ==
    /\ op # "none"
    /\ op' = "none"
    /\ input' = NoInput
    /\ handle' = NoHandle
    /\ result' = Ok(Unit)
    /\ before' = ledger
    /\ UNCHANGED <<ledger, ncalls>>

Next ==
    \/ Call_convert_asset_id_to_address
    \/ Call_create
    \/ Call_set_metadata
    \/ Call_set_min_balance
    \/ Call_set_team
    \/ Call_transfer_ownership
    \/ Call_start_destroy
    \/ Call_finish_destroy
    \/ Return

Spec == Init /\ [][Next]_vars

\* Call data: the selectors of the eight signatures and of one nobody declared.
SelectorInputs ==
    {Selector(f.signature) : f \in PublicFunctions}
        \cup {Selector("forceCreate(uint64,address,uint128)")}

\* The argument tuples tried for each function.
WireArgs(f) ==
    CASE f \in {"convertAssetIdToAddress", "startDestroy", "finishDestroy"} ->
            [id : U64Inputs]
      [] f = "create" -> [id : U64Inputs, admin : Addresses, min_balance : U128Inputs]
      [] f = "setMetadata" ->
            [id : U64Inputs, name : WireBytesInputs, symbol : WireBytesInputs,
             decimals : U8Inputs]
      [] f = "setMinBalance" -> [id : U64Inputs, min_balance : U128Inputs]
      [] f = "setTeam" ->
            [id : U64Inputs, issuer : Addresses, admin : Addresses, freezer : Addresses]
      [] f = "transferOwnership" -> [id : U64Inputs, owner : Addresses]
      [] OTHER -> [id : U64Inputs, admin : Addresses, min_balance : U128Inputs]

Execute ==
    /\ Idle
    /\ \E selector \in SelectorInputs, caller \in Addresses, gas \in GasInputs :
        \E args \in WireArgs(discriminant(selector)) :
            Invoke(discriminant(selector),
                   [selector |-> selector, caller |-> caller, gas |-> gas] @@ args,
                   execute(NewHandle(caller, gas), ledger, selector, args))

NextWire ==
    \/ Execute
    \/ Return

SpecWire == Init /\ [][NextWire]_vars

(***************************************************************************)
(* Vocabulary of the properties.                                           *)
(***************************************************************************)
MutatingOps == {"create", "setMetadata", "setMinBalance", "setTeam",
                "transferOwnership", "startDestroy", "finishDestroy"}

IsCharge(e) == e.ev = "record_log_costs"
IsDispatch(e) == e.ev = "try_dispatch"
Charges == SelectSeq(handle.trace, IsCharge)
Dispatches == SelectSeq(handle.trace, IsDispatch)

\* The charge every mutating function is to record: 3 topics, 32 bytes.
LogCost == G_LOG + G_LOGDATA * 32 + G_LOGTOPIC * 3
LogCharge == [ev |-> "record_log_costs", topics |-> 3, data_size |-> 32, cost |-> LogCost]

Fits(id) == id <= AssetIdMax
Admissible(id) == id \notin ReservedAssetIds
Account(address) == <<"AccountId", address>>
Source(address) == <<"Id", Account(address)>>
TooLargeId == [tag |-> "Err", reason |-> "ValueIsTooLarge", what |-> "asset id", field |-> "id"]
InvalidAssetId == [tag |-> "Err", reason |-> "Custom", msg |-> "Invalid asset id"]

(***************************************************************************)
(* C1.  In every mutating function, whatever the caller and the decoded    *)
(* arguments, the origin of the call handed to the execution engine is the *)
(* account mapped from the invocation's caller, never one taken from an    *)
(* argument.                                                               *)
(***************************************************************************)
C1_OriginIsCaller ==
    op \in MutatingOps =>
        \A i \in DOMAIN handle.trace :
            IsDispatch(handle.trace[i]) => handle.trace[i].origin = Account(input.caller)

\* setTeam by a caller that is none of issuer, admin and freezer, dispatched.
C1_Witness ==
    /\ op = "setTeam"
    /\ input.caller \notin {input.issuer, input.admin, input.freezer}
    /\ Len(Dispatches) = 1
    /\ Dispatches[1].engine = "Ok"

(***************************************************************************)
(* C2.  As claimed: every create whose id fits the internal type and fails *)
(* the admissibility predicate ends with Custom("Invalid asset id"),       *)
(* without a dispatch and with the ledger unchanged.                       *)
(***************************************************************************)
C2_Original ==
    (op = "create" /\ Fits(input.id) /\ ~Admissible(input.id)) =>
        /\ result = InvalidAssetId
        /\ Dispatches = <<>>
        /\ ledger = before

(***************************************************************************)
(* C2, amended.  Every create with gas for the log-cost charge whose id    *)
(* fits the internal type and fails the admissibility predicate ends with  *)
(* Custom("Invalid asset id"); with or without that gas it makes no        *)
(* dispatch and leaves the ledger unchanged.                               *)
(***************************************************************************)
C2_InadmissibleCreateRejected ==
    (op = "create" /\ Fits(input.id) /\ ~Admissible(input.id)) =>
        /\ input.gas >= LogCost => result = InvalidAssetId
        /\ Dispatches = <<>>
        /\ ledger = before

C2_Witness ==
    /\ op = "create"
    /\ Fits(input.id) /\ ~Admissible(input.id)
    /\ input.gas >= LogCost
    /\ result = InvalidAssetId

(***************************************************************************)
(* C3.  A create rejected with "Invalid asset id" has had exactly the      *)
(* log-cost charge (3 topics, 32 bytes) debited and nothing else recorded: *)
(* the charge comes before the admissibility check.                        *)
(***************************************************************************)
C3_RejectedCreateIsCharged ==
    (op = "create" /\ result = InvalidAssetId) =>
        /\ handle.trace = <<LogCharge>>
        /\ handle.gas = input.gas - LogCost

C3_Witness ==
    /\ op = "create"
    /\ result = InvalidAssetId
    /\ input.gas > LogCost
    /\ handle.gas = input.gas - LogCost

(***************************************************************************)
(* C4.  In every mutating function a call handed to the execution engine   *)
(* is preceded, in the same invocation, by exactly one log-cost charge, of *)
(* 3 topics and 32 bytes, the same for all seven functions.                *)
(***************************************************************************)
C4_ChargeBeforeDispatch ==
    op \in MutatingOps =>
        \A i \in DOMAIN handle.trace :
            IsDispatch(handle.trace[i]) =>
                /\ i = 2
                /\ handle.trace[1] = LogCharge
                /\ Charges = <<LogCharge>>

C4_Witness ==
    /\ op = "startDestroy"
    /\ Len(handle.trace) = 2
    /\ handle.trace[1] = LogCharge
    /\ IsDispatch(handle.trace[2])
    /\ handle.trace[2].engine = "Ok"

(***************************************************************************)
(* C5.  A mutating function entered with less gas than the log-cost charge *)
(* fails out of gas and hands no call to the execution engine, whatever    *)
(* its arguments.                                                          *)
(***************************************************************************)
C5_NoGasNoDispatch ==
    (op \in MutatingOps /\ input.gas < LogCost) =>
        /\ result = OutOfGas
        /\ Dispatches = <<>>
        /\ ledger = before

\* setMinBalance short of gas, with an id that would pass conversion.
C5_Witness ==
    /\ op = "setMinBalance"
    /\ input.gas < LogCost
    /\ Fits(input.id)
    /\ ledger[input.id] # NoAsset
    /\ result = OutOfGas

(***************************************************************************)
(* C6.  As claimed: in each of the eight functions an id that does not fit *)
(* the internal asset-id type ends the invocation with the value-too-large *)
(* revert in field "id", and no call is dispatched.                        *)
(***************************************************************************)
C6_Original ==
    (op # "none" /\ ~Fits(input.id)) =>
        /\ result = TooLargeId
        /\ Dispatches = <<>>

(***************************************************************************)
(* C6, amended.  An id that does not fit the internal asset-id type ends   *)
(* convertAssetIdToAddress, and every mutating function entered with gas   *)
(* for the log-cost charge, with the value-too-large revert in field "id"; *)
(* in no function is such an id truncated or a call dispatched for it.     *)
(***************************************************************************)
C6_TooLargeIdRejected ==
    (op # "none" /\ ~Fits(input.id)) =>
        /\ (op = "convertAssetIdToAddress" \/ input.gas >= LogCost) => result = TooLargeId
        /\ result.tag = "Err"
        /\ Dispatches = <<>>
        /\ ledger = before

C6_Witness ==
    /\ op = "convertAssetIdToAddress"
    /\ ~Fits(input.id)
    /\ result = TooLargeId

(***************************************************************************)
(* C7.  In create and setMinBalance the dispatched min_balance is the      *)
(* argument when it fits the internal balance type and the type's maximum  *)
(* otherwise; a min_balance that does not fit causes no revert and does    *)
(* not keep the call from being handed to the engine.                      *)
(***************************************************************************)
C7_MinBalanceSaturates ==
    (op \in {"create", "setMinBalance"}) =>
        /\ \A i \in DOMAIN Dispatches :
               Dispatches[i].call.min_balance =
                   IF input.min_balance <= BalanceMax THEN input.min_balance ELSE BalanceMax
        /\ ( /\ input.gas >= LogCost
             /\ Fits(input.id)
             /\ op = "create" => Admissible(input.id) )
           => Len(Dispatches) = 1

\* setMinBalance with a balance beyond the internal maximum, dispatched with the maximum.
C7_Witness ==
    /\ op = "setMinBalance"
    /\ input.min_balance > BalanceMax
    /\ Len(Dispatches) = 1
    /\ Dispatches[1].call.min_balance = BalanceMax
    /\ Dispatches[1].engine = "Ok"
    /\ result.tag = "Ok"

(***************************************************************************)
(* C8.  The call a mutating function hands to the engine is the ledger     *)
(* call of its own kind, each field the converted argument in the same     *)
(* role.                                                                   *)
(***************************************************************************)
ExpectedBalance == IF input.min_balance <= BalanceMax THEN input.min_balance ELSE BalanceMax

ExpectedCall ==
    CASE op = "create" ->
            [call |-> "create", id |-> input.id, admin |-> Source(input.admin),
             min_balance |-> ExpectedBalance]
      [] op = "setMetadata" ->
            [call |-> "set_metadata", id |-> input.id, name |-> input.name,
             symbol |-> input.symbol, decimals |-> input.decimals]
      [] op = "setMinBalance" ->
            [call |-> "set_min_balance", id |-> input.id, min_balance |-> ExpectedBalance]
      [] op = "setTeam" ->
            [call |-> "set_team", id |-> input.id, issuer |-> Source(input.issuer),
             admin |-> Source(input.admin), freezer |-> Source(input.freezer)]
      [] op = "transferOwnership" ->
            [call |-> "transfer_ownership", id |-> input.id, owner |-> Source(input.owner)]
      [] op = "startDestroy" -> [call |-> "start_destroy", id |-> input.id]
      [] op = "finishDestroy" -> [call |-> "finish_destroy", id |-> input.id]

C8_DispatchedCallMatches ==
    op \in MutatingOps =>
        \A i \in DOMAIN Dispatches :
            /\ Dispatches[i].call = ExpectedCall
            /\ Dispatches[i].origin = Account(input.caller)

\* setTeam with an issuer different from the admin, applied to the ledger in that order.
C8_Witness ==
    /\ op = "setTeam"
    /\ input.issuer # input.admin
    /\ Len(Dispatches) = 1
    /\ Dispatches[1].engine = "Ok"
    /\ ledger[input.id].team =
           <<Account(input.issuer), Account(input.admin), Account(input.freezer)>>

(***************************************************************************)
(* C9.  convertAssetIdToAddress of an id that fits the internal type       *)
(* returns the address derived from that id and from nothing else, records *)
(* no cost, dispatches nothing and leaves the ledger unchanged.            *)
(***************************************************************************)
C9_ConvertIsPure ==
    (op = "convertAssetIdToAddress" /\ Fits(input.id)) =>
        /\ result = Ok(asset_id_to_address(input.id))
        /\ handle.trace = <<>>
        /\ handle.gas = input.gas
        /\ ledger = before

\* A conversion on a ledger that already holds assets, short of the log cost's gas.
C9_Witness ==
    /\ op = "convertAssetIdToAddress"
    /\ Fits(input.id)
    /\ input.gas < LogCost
    /\ ledger # EmptyLedger
    /\ result.tag = "Ok"

(***************************************************************************)
(* C10.  A mutating invocation returns success, with an empty payload, if  *)
(* and only if it handed a call to the engine and the engine reported      *)
(* success; when the engine reports a failure the invocation returns that  *)
(* failure and the ledger is as it was.                                    *)
(***************************************************************************)
C10_SuccessIffEngineSuccess ==
    op \in MutatingOps =>
        /\ result.tag = "Ok" <=>
               (\E i \in DOMAIN Dispatches : Dispatches[i].engine = "Ok")
        /\ result.tag = "Ok" => result.value = Unit
        /\ \A i \in DOMAIN Dispatches :
               Dispatches[i].engine # "Ok" =>
                   /\ result = IF Dispatches[i].engine = "OutOfGas"
                               THEN OutOfGas
                               ELSE DispatchError(Dispatches[i].engine)
                   /\ ledger = before

\* transferOwnership by an account that does not own the asset.
C10_Witness ==
    /\ op = "transferOwnership"
    /\ Len(Dispatches) = 1
    /\ Dispatches[1].engine = "NoPermission"
    /\ result = DispatchError("NoPermission")
    /\ ledger = before

(***************************************************************************)
(* C11.  As claimed: validation comes before the cost charge, so that a    *)
(* mutating invocation whose id does not fit the internal type ends with   *)
(* no log-cost charge recorded and no dispatch.                            *)
(***************************************************************************)
C11_Original ==
    (op \in MutatingOps /\ ~Fits(input.id)) =>
        /\ Charges = <<>>
        /\ Dispatches = <<>>

(***************************************************************************)
(* C11, amended.  A mutating invocation runs Cost-Charge, then             *)
(* Validate/Resolve (id conversion, and admissibility in create), then     *)
(* Dispatch, and a failure at a step ends it without any later step: out   *)
(* of gas at the charge leaves nothing recorded; a failed validation       *)
(* leaves exactly the log-cost charge recorded and no dispatch; a dispatch *)
(* comes second and last.  In particular an invocation that ends with the  *)
(* value-too-large revert of its id has the log-cost charge recorded and   *)
(* no dispatch.                                                            *)
(***************************************************************************)
C11_ChargeThenValidateThenDispatch ==
    op \in MutatingOps =>
        /\ \/ handle.trace = <<>>
           \/ handle.trace = <<LogCharge>>
           \/ /\ Len(handle.trace) = 2
              /\ handle.trace[1] = LogCharge
              /\ IsDispatch(handle.trace[2])
        /\ handle.trace = <<>> <=> input.gas < LogCost
        /\ input.gas < LogCost => result = OutOfGas
        /\ (input.gas >= LogCost /\ ~Fits(input.id)) =>
               /\ result = TooLargeId
               /\ handle.trace = <<LogCharge>>
               /\ handle.gas = input.gas - LogCost
               /\ ledger = before
        /\ result = TooLargeId => (~Fits(input.id) /\ handle.trace = <<LogCharge>>)
        /\ Len(handle.trace) = 2 =>
               (Fits(input.id) /\ (op = "create" => Admissible(input.id)))

\* transferOwnership of an id beyond the internal type: charged, then rejected.
C11_Witness ==
    /\ op = "transferOwnership"
    /\ ~Fits(input.id)
    /\ result = TooLargeId
    /\ handle.trace = <<LogCharge>>
    /\ handle.gas = input.gas - LogCost

(***************************************************************************)
(* C14.  Only create applies the admissibility predicate.  An id that fits *)
(* the internal type and fails the predicate does not keep setMetadata,    *)
(* setMinBalance, setTeam, transferOwnership, startDestroy or              *)
(* finishDestroy from charging the log cost and handing its call to the    *)
(* engine, nor is it ever rejected there as an invalid asset id; and       *)
(* convertAssetIdToAddress returns the derived address for it.             *)
(***************************************************************************)
C14_AdmissibilityOnlyInCreate ==
    (op # "none" /\ op # "create" /\ Fits(input.id) /\ ~Admissible(input.id)) =>
        /\ result # InvalidAssetId
        /\ op = "convertAssetIdToAddress" => result = Ok(<<"0xFFFFFFFF", input.id>>)
        /\ (op \in MutatingOps /\ input.gas >= LogCost) =>
               /\ Charges = <<LogCharge>>
               /\ Len(Dispatches) = 1
               /\ Dispatches[1].call = ExpectedCall

\* startDestroy of the reserved id: charged and handed to the engine, which knows no such asset.
C14_Witness ==
    /\ op = "startDestroy"
    /\ Fits(input.id) /\ ~Admissible(input.id)
    /\ Charges = <<LogCharge>>
    /\ Len(Dispatches) = 1
    /\ Dispatches[1].call = [call |-> "start_destroy", id |-> input.id]
    /\ Dispatches[1].engine = "Unknown"

(***************************************************************************)
(* C12.  A setMetadata call whose name or symbol is longer than 65,536     *)
(* bytes fails while its arguments are decoded, with the oversized-length  *)
(* revert of that field, before the handler's log-cost charge, id          *)
(* conversion or dispatch; a name and a symbol of at most 65,536 bytes are *)
(* accepted and forwarded unchanged.                                       *)
(***************************************************************************)
OversizedBytes(field) ==
    [tag |-> "Err", reason |-> "ValueIsTooLarge", what |-> "length", field |-> field]

C12_OversizedBytesRejected ==
    op = "setMetadata" =>
        /\ input.name.len > 65536 =>
               result = OversizedBytes("name")
        /\ (input.name.len <= 65536 /\ input.symbol.len > 65536) =>
               result = OversizedBytes("symbol")
        /\ (input.name.len > 65536 \/ input.symbol.len > 65536) =>
               /\ handle.trace = <<>>
               /\ handle.gas = input.gas
               /\ ledger = before
        /\ (input.name.len <= 65536 /\ input.symbol.len <= 65536) =>
               /\ result \notin {OversizedBytes("name"), OversizedBytes("symbol")}
               /\ (input.gas >= LogCost /\ Fits(input.id)) =>
                      /\ Len(Dispatches) = 1
                      /\ Dispatches[1].call.name = input.name
                      /\ Dispatches[1].call.symbol = input.symbol

\* A symbol one byte over the bound, with gas and an id that would otherwise go through.
C12_Witness ==
    /\ op = "setMetadata"
    /\ input.name.len = 65536
    /\ input.symbol.len = 65537
    /\ input.gas >= LogCost
    /\ Fits(input.id)
    /\ ledger[input.id] # NoAsset
    /\ result = OversizedBytes("symbol")
    /\ handle.trace = <<>>

(***************************************************************************)
(* Routing, as both readings of C13 state it: an unknown selector reaches  *)
(* no handler; any other selector is the hash of exactly one public        *)
(* function's signature, and the handler that ran is that function's.      *)
(***************************************************************************)
PublicOps == {f.op : f \in PublicFunctions}
PublicSelectors == {Selector(f.signature) : f \in PublicFunctions}

LedgerCallOf(f) ==
    CASE f = "create" -> "create"
      [] f = "setMetadata" -> "set_metadata"
      [] f = "setMinBalance" -> "set_min_balance"
      [] f = "setTeam" -> "set_team"
      [] f = "transferOwnership" -> "transfer_ownership"
      [] f = "startDestroy" -> "start_destroy"
      [] f = "finishDestroy" -> "finish_destroy"
      [] OTHER -> "none"

RoutedToOwnHandler ==
    op # "none" =>
        /\ op = "unknown" <=> input.selector \notin PublicSelectors
        /\ op = "unknown" =>
               /\ result = UnknownSelector
               /\ handle.trace = <<>>
               /\ ledger = before
        /\ op # "unknown" =>
               /\ Cardinality({f \in PublicFunctions :
                                  Selector(f.signature) = input.selector}) = 1
               /\ \E f \in PublicFunctions :
                      Selector(f.signature) = input.selector /\ f.op = op
               /\ \A i \in DOMAIN Dispatches : Dispatches[i].call.call = LedgerCallOf(op)
               /\ result.tag = "Ok" =>
                      result.value = IF op = "convertAssetIdToAddress"
                                     THEN <<"0xFFFFFFFF", input.id>>
                                     ELSE Unit

(***************************************************************************)
(* C13.  As claimed: the selector dispatch table exposes exactly nine      *)
(* operations, each selected by the hash of its own signature and routed   *)
(* to exactly one handler.                                                 *)
(***************************************************************************)
C13_Original ==
    /\ Cardinality(PublicOps) = 9
    /\ Cardinality(PublicSelectors) = 9
    /\ RoutedToOwnHandler

(***************************************************************************)
(* C13, amended.  The selector dispatch table exposes exactly eight        *)
(* operations (convertAssetIdToAddress, create, setMetadata,               *)
(* setMinBalance, setTeam, transferOwnership, startDestroy,                *)
(* finishDestroy), each selected by the hash of its own signature and      *)
(* routed to exactly one handler.                                          *)
(***************************************************************************)
C13_EightOperations ==
    /\ Cardinality(PublicOps) = 8
    /\ Cardinality(PublicSelectors) = 8
    /\ PublicOps = MutatingOps \cup {"convertAssetIdToAddress"}
    /\ RoutedToOwnHandler

\* finishDestroy, picked by its own selector, has removed the asset it was called for.
C13_Witness ==
    /\ op = "finishDestroy"
    /\ input.selector = <<"keccak256[0..4]", "finishDestroy(uint64)">>
    /\ Len(Dispatches) = 1
    /\ Dispatches[1].call = [call |-> "finish_destroy", id |-> input.id]
    /\ Dispatches[1].engine = "Ok"
    /\ before[input.id] # NoAsset
    /\ ledger[input.id] = NoAsset
====
